---------------------------- MODULE Spec2Model ----------------------------
(***************************************************************************)
(* Guess-the-formula daily puzzle: the seeded generator, the tile parser,  *)
(* the tile scorer and the round state machine, modelled from the script.  *)
(*                                                                         *)
(* A character is a one-element string; a tile sequence or a text is a     *)
(* sequence of characters.  The two non-ASCII glyphs the script maps are   *)
(* the tokens "MULSIGN" (U+00D7) and "MINUSSIGN" (U+2212).  A 32-bit word  *)
(* is a pair <<hi, lo>> of 16-bit halves, since TLC's integers are         *)
(* themselves 32-bit signed.                                               *)
(***************************************************************************)
EXTENDS Integers, Sequences, FiniteSets, TLC

(***************************************************************************)
(* SETTINGS                                                                *)
(***************************************************************************)
ALLOWED_OPS == <<"+", "-", "*">>

TILE_COUNT == 8

MAX_GUESSES == 5

MinOperand == 1

MaxOperand == 999

(***************************************************************************)
(* Bounds of the model                                                     *)
(***************************************************************************)
\* The clock shows NumDays days, from 25 January 2024 on.
NumDays == 3

\* The digits an operand drawn "from any RNG" may be written with are
\* 0..MaxDrawDigit and 9 (so every digit count 1..3 and both ends of 1..999
\* occur).
MaxDrawDigit == 1

(***************************************************************************)
(* Characters                                                              *)
(***************************************************************************)
Digits == <<"0", "1", "2", "3", "4", "5", "6", "7", "8", "9">>

\* charCodeAt of the characters the model uses (UTF-16 code units).
charCode ==
  [c \in {"\t", " ", "*", "+", "-", "/", "0", "1", "2", "3", "4", "5", "6",
          "7", "8", "9", ":", "X", "a", "d", "e", "g", "i", "l", "o", "s",
          "t", "v", "x", "y", "MULSIGN", "MINUSSIGN"} |->
     CASE c = "\t" -> 9   [] c = " " -> 32  [] c = "*" -> 42  [] c = "+" -> 43
       [] c = "-" -> 45   [] c = "/" -> 47  [] c = "0" -> 48  [] c = "1" -> 49
       [] c = "2" -> 50   [] c = "3" -> 51  [] c = "4" -> 52  [] c = "5" -> 53
       [] c = "6" -> 54   [] c = "7" -> 55  [] c = "8" -> 56  [] c = "9" -> 57
       [] c = ":" -> 58   [] c = "X" -> 88  [] c = "a" -> 97  [] c = "d" -> 100
       [] c = "e" -> 101  [] c = "g" -> 103 [] c = "i" -> 105 [] c = "l" -> 108
       [] c = "o" -> 111  [] c = "s" -> 115 [] c = "t" -> 116 [] c = "v" -> 118
       [] c = "x" -> 120  [] c = "y" -> 121 [] c = "MULSIGN" -> 215
       [] c = "MINUSSIGN" -> 8722]

\* String.prototype.toLowerCase / toUpperCase on one character.
toLowerCase(c) == IF c = "X" THEN "x" ELSE c

toUpperCase(c) ==
  CASE c = "x" -> "X" [] c = "a" -> "A" [] c = "d" -> "D" [] c = "e" -> "E"
    [] c = "g" -> "G" [] c = "i" -> "I" [] c = "l" -> "L" [] c = "o" -> "O"
    [] c = "s" -> "S" [] c = "t" -> "T" [] c = "v" -> "V" [] c = "y" -> "Y"
    [] OTHER -> c

MapSeq(s, F(_)) == [i \in 1..Len(s) |-> F(s[i])]

\* isDigit without its upper end
isDigitNoUpper(ch) == charCode[ch] >= charCode["0"]

isDigit(ch) == charCode[ch] >= charCode["0"] /\ charCode[ch] <= charCode["9"]

(***************************************************************************)
(* 32-bit words                                                            *)
(***************************************************************************)
Half == 256 * 256

RECURSIVE XorBits(_, _, _)
XorBits(a, b, n) ==
  IF n = 0 THEN 0
  ELSE (((a % 2) + (b % 2)) % 2) + 2 * XorBits(a \div 2, b \div 2, n - 1)

RECURSIVE OrBits(_, _, _)
OrBits(a, b, n) ==
  IF n = 0 THEN 0
  ELSE (IF (a % 2) + (b % 2) > 0 THEN 1 ELSE 0) + 2 * OrBits(a \div 2, b \div 2, n - 1)

RECURSIVE Pow2(_)
Pow2(n) == IF n = 0 THEN 1 ELSE 2 * Pow2(n - 1)

\* a ^ b
Xor32(a, b) == <<XorBits(a[1], b[1], 16), XorBits(a[2], b[2], 16)>>

\* a | b
Or32(a, b) == <<OrBits(a[1], b[1], 16), OrBits(a[2], b[2], 16)>>

\* a >>> s, for 0 < s < 16
Shr32(a, s) ==
  <<a[1] \div Pow2(s), (a[2] \div Pow2(s)) + (a[1] % Pow2(s)) * Pow2(16 - s)>>

\* (a + b) wrapped to 32 bits
Add32(a, b) ==
  <<(a[1] + b[1] + ((a[2] + b[2]) \div Half)) % Half, (a[2] + b[2]) % Half>>

\* The full product of two 16-bit halves, as a word.
Mul16(a, b) ==
  LET p0 == (a % 256) * b
      p1 == (a \div 256) * b
      s  == p0 + (p1 % 256) * 256
  IN  <<(p1 \div 256) + (s \div Half), s % Half>>

\* Math.imul(a, b): the low 32 bits of the product
imul(a, b) ==
  LET p == Mul16(a[2], b[2])
  IN  <<(p[1] + Mul16(a[1], b[2])[2] + Mul16(a[2], b[1])[2]) % Half, p[2]>>

(***************************************************************************)
(* SEEDED RNG (string -> deterministic PRNG)                               *)
(***************************************************************************)
FNV_BASIS == <<33052, 40389>>      \* 2166136261 = 0x811C9DC5

FNV_PRIME == <<256, 403>>          \* 16777619   = 0x01000193

MULBERRY_INC == <<27947, 31221>>   \* 0x6D2B79F5

RECURSIVE hashFrom(_, _, _)
hashFrom(h, str, i) ==
  IF i > Len(str) THEN h
  ELSE LET h2 == imul(Xor32(h, <<0, charCode[str[i]]>>), FNV_PRIME)
       IN  IF h2[1] < Half THEN hashFrom(h2, str, i + 1) ELSE h2

\* FNV-1a 32-bit hash
hashStringToUint32(str) == hashFrom(FNV_BASIS, str, 1)

\* The generator's state after one more call (seed += 0x6D2B79F5).
mulberryNext(seed) == Add32(seed, MULBERRY_INC)

\* t = Math.imul(t ^ (t >>> 15), t | 1)
mulberryMix1(t) == imul(Xor32(t, Shr32(t, 15)), Or32(t, <<0, 1>>))

\* t ^= t + Math.imul(t ^ (t >>> 7), t | 61)
mulberryMix2(t) == Xor32(t, Add32(t, imul(Xor32(t, Shr32(t, 7)), Or32(t, <<0, 61>>))))

\* (t ^ (t >>> 14)) >>> 0
mulberryMix3(t) == Xor32(t, Shr32(t, 14))

\* The 32-bit numerator of the value a call returns, from the state it has
\* just advanced to: rng() = mulberryOut(seed) / 4294967296.
mulberryOut(seed) == mulberryMix3(mulberryMix2(mulberryMix1(seed)))

\* Math.floor(rng() * (max - min + 1)) + min, with rng() = v / 2^32
randInt(v, min, max) ==
  LET m == max - min + 1
  IN  ((v[1] * m + ((v[2] * m) \div Half)) \div Half) + min

randChoice(v, arr) == arr[randInt(v, 0, Len(arr) - 1) + 1]

(***************************************************************************)
(* FORMULA PARSING (8 tiles, 2-3 ops, numbers 1-3 digits)                  *)
(***************************************************************************)
\* tiles[i] with the script's 0-based index
At(tiles, i) == tiles[i + 1]

digitValue(ch) == charCode[ch] - charCode["0"]

RECURSIVE parseIntFrom(_, _, _)
parseIntFrom(numStr, i, acc) ==
  IF i > Len(numStr) THEN acc
  ELSE parseIntFrom(numStr, i + 1, acc * 10 + digitValue(numStr[i]))

\* parseInt given tiles[i] alone, the digits after it never appended
parseIntFirstDigit(numStr) == digitValue(numStr[1])

\* parseInt(numStr, 10) of a run of decimal digits
parseInt(numStr) == parseIntFrom(numStr, 1, 0)

RECURSIVE decimalDigits(_)
decimalDigits(n) ==
  IF n < 10 THEN <<Digits[n + 1]>>
  ELSE Append(decimalDigits(n \div 10), Digits[(n % 10) + 1])

\* String(n).split("") of a non-negative integer
numberToDigits(n) == decimalDigits(n)

ParseError(e) == [ok |-> FALSE, err |-> e, ops |-> <<>>, nums |-> <<>>]

\* The number of digits (1..3) the parser reads from index i, a digit.
digitRun(tiles, i) ==
  IF i + 1 < TILE_COUNT /\ isDigit(At(tiles, i + 1))
  THEN IF i + 2 < TILE_COUNT /\ isDigit(At(tiles, i + 2)) THEN 3 ELSE 2
  ELSE 1

RECURSIVE parseLoop(_, _, _, _)
parseLoop(tiles, i, ops, nums) ==
  IF ~(i < TILE_COUNT)
  THEN IF ~(Len(ops) = 2 \/ Len(ops) = 3) THEN ParseError("count")
       ELSE IF Len(nums) # Len(ops) THEN ParseError("mismatch")
       ELSE [ok |-> TRUE, err |-> "", ops |-> ops, nums |-> nums]
  ELSE IF ~(\E k \in 1..Len(ALLOWED_OPS) : ALLOWED_OPS[k] = At(tiles, i))
       THEN ParseError("operator")
  ELSE IF i + 1 >= TILE_COUNT \/ ~isDigit(At(tiles, i + 1))
       THEN ParseError("digit")
  ELSE LET n == digitRun(tiles, i + 1)
           j == i + 1 + n
       IN  IF j < TILE_COUNT /\ isDigit(At(tiles, j))
           THEN ParseError("long")
           ELSE parseLoop(tiles, j, Append(ops, At(tiles, i)),
                          Append(nums, parseInt(SubSeq(tiles, i + 2, j))))

parseFormulaFromTiles(tiles) ==
  IF Len(tiles) # TILE_COUNT THEN ParseError("length")
  ELSE IF At(tiles, 0) # "x" THEN ParseError("start")
  ELSE parseLoop(tiles, 1, <<>>, <<>>)

(***************************************************************************)
(* FORMULA GENERATION (8 tiles exact)                                      *)
(*                                                                         *)
(* One run of generateFormulaString is a record: pc is the place in the    *)
(* loop, chars the tile list (<<>> stands for null), out the returned      *)
(* string.  Each step that calls the RNG takes the integer randInt         *)
(* returned for it.                                                        *)
(***************************************************************************)
GenStart ==
  [pc |-> "opCount", opCount |-> 0, k |-> 0, chars |-> <<>>, out |-> <<>>]

\* The (min, max) of the randInt call made at each place of the loop.
drawRange(pc) ==
  CASE pc = "opCount" -> <<0, 1>>
    [] pc = "op"      -> <<0, Len(ALLOWED_OPS) - 1>>
    [] pc = "num"     -> <<MinOperand, MaxOperand>>

needsDraw(g) == g.pc \in {"opCount", "op", "num"}

\* const opCount = randChoice(rng, [2,3]); let chars = ["x"]; k = 0
stepOpCount(g, r) ==
  LET c == <<2, 3>>[r + 1]
  IN  [g EXCEPT !.opCount = c, !.chars = <<"x">>, !.k = 0,
                !.pc = IF 0 < c THEN "op" ELSE "check"]

\* chars.push(randChoice(rng, Array.from(ALLOWED_OPS)))
stepOp(g, r) ==
  [g EXCEPT !.chars = Append(g.chars, ALLOWED_OPS[r + 1]), !.pc = "num"]

\* stepNum drawing the slot again, operator and operand, when the digits do
\* not fit
stepNumRetrySlot(g, n) ==
  LET digits == numberToDigits(n)
  IN  IF Len(g.chars) + Len(digits) > TILE_COUNT
      THEN [g EXCEPT !.chars = SubSeq(g.chars, 1, Len(g.chars) - 1), !.pc = "op"]
      ELSE [g EXCEPT !.chars = g.chars \o digits, !.k = g.k + 1,
                     !.pc = IF g.k + 1 < g.opCount THEN "op" ELSE "check"]

\* n = randInt(rng, 1, 999); overflow check; chars.push(...digits); k++
stepNum(g, n) ==
  LET digits == numberToDigits(n)
  IN  IF Len(g.chars) + Len(digits) > TILE_COUNT
      THEN [g EXCEPT !.chars = <<>>, !.pc = "check"]
      ELSE [g EXCEPT !.chars = g.chars \o digits, !.k = g.k + 1,
                     !.pc = IF g.k + 1 < g.opCount THEN "op" ELSE "check"]

\* stepCheck testing !chars alone
stepCheckNoLength(g) ==
  IF g.chars = <<>>
  THEN [g EXCEPT !.pc = "opCount"]
  ELSE LET s == MapSeq(g.chars, toLowerCase)
       IN  IF parseFormulaFromTiles(s).ok
           THEN [g EXCEPT !.out = s, !.pc = "done"]
           ELSE [g EXCEPT !.pc = "catch"]

\* if (!chars || chars.length !== TILE_COUNT) continue; try { parse; return s }
stepCheck(g) ==
  IF g.chars = <<>> \/ Len(g.chars) # TILE_COUNT
  THEN [g EXCEPT !.pc = "opCount"]
  ELSE LET s == MapSeq(g.chars, toLowerCase)
       IN  IF parseFormulaFromTiles(s).ok
           THEN [g EXCEPT !.out = s, !.pc = "done"]
           ELSE [g EXCEPT !.pc = "catch"]

\* catch (_e) { continue; }
stepCatch(g) == [g EXCEPT !.pc = "opCount"]

genStep(g, r) ==
  CASE g.pc = "opCount" -> stepOpCount(g, r)
    [] g.pc = "op"      -> stepOp(g, r)
    [] g.pc = "num"     -> stepNum(g, r)
    [] g.pc = "check"   -> stepCheck(g)
    [] g.pc = "catch"   -> stepCatch(g)

\* One step of the loop fed by a mulberry32 closure whose state is seed.
drawStep(g, s) ==
  [g |-> genStep(g, randInt(mulberryOut(s), drawRange(g.pc)[1], drawRange(g.pc)[2])),
   seed |-> s]

seededStep(run) ==
  IF needsDraw(run.g)
  THEN drawStep(run.g, mulberryNext(run.seed))
  ELSE [g |-> genStep(run.g, 0), seed |-> run.seed]

\* The rest of the current pass of while (true): up to its continue or return.
RECURSIVE passToEnd(_)
passToEnd(run) ==
  LET next == seededStep(run)
  IN  IF next.g.pc \in {"done", "opCount"} THEN next ELSE passToEnd(next)

RECURSIVE runToEnd(_)
runToEnd(run) ==
  LET next == passToEnd(run)
  IN  IF next.g.pc = "done" THEN next.g.out ELSE runToEnd(next)

generateFormulaString(seed) == runToEnd([g |-> GenStart, seed |-> seed])

SEED_PREFIX ==
  <<"d", "a", "i", "l", "y", "-", "v", "4", ":", ":",
    "t", "i", "l", "e", "s", "8", ":", ":",
    "1", "t", "o", "3", "d", "i", "g", "i", "t", "s", ":", ":">>

\* const seed = hashStringToUint32(...); const rng = mulberry32(seed): the state
\* of the closure a call of dailySecret creates
closureSeed(key) == hashStringToUint32(SEED_PREFIX \o key)

dailySecret(key) == generateFormulaString(closureSeed(key))

(***************************************************************************)
(* DATE (DAILY PUZZLE)                                                     *)
(***************************************************************************)
\* todayKey when the clock shows the d-th day of January 2024: YYYY-MM-DD
todayKey(d) ==
  <<"2", "0", "2", "4", "-", "0", "1", "-", Digits[(d \div 10) + 1], Digits[(d % 10) + 1]>>

Days == 25..(24 + NumDays)

\* The day-keys of the model
DayKeys == {todayKey(d) : d \in Days}

(***************************************************************************)
(* MATH (left-to-right, no division)                                       *)
(***************************************************************************)
applyOp(a, op, b) ==
  CASE op = "+" -> a + b
    [] op = "-" -> a - b
    [] op = "*" -> a * b

RECURSIVE evalFrom(_, _, _, _)
evalFrom(v, ops, nums, i) ==
  IF i > Len(ops) THEN v
  ELSE evalFrom(applyOp(v, ops[i], nums[i]), ops, nums, i + 1)

\* evalLeftToRight going over the pairs from the last to the first
evalLastToFirst(x, ops, nums) ==
  evalFrom(x, [k \in 1..Len(ops) |-> ops[Len(ops) + 1 - k]],
              [k \in 1..Len(nums) |-> nums[Len(nums) + 1 - k]], 1)

evalLeftToRight(x, ops, nums) == evalFrom(x, ops, nums, 1)

(***************************************************************************)
(* GUESS HANDLING (x implied, exactly 8 chars)                             *)
(***************************************************************************)
\* The white space String.prototype.trim removes, among the model's characters
isWhiteSpace(c) == c \in {" ", "\t"}

RECURSIVE trimStart(_)
trimStart(s) ==
  IF s # <<>> /\ isWhiteSpace(Head(s)) THEN trimStart(Tail(s)) ELSE s

RECURSIVE trimEnd(_)
trimEnd(s) ==
  IF s # <<>> /\ isWhiteSpace(s[Len(s)]) THEN trimEnd(SubSeq(s, 1, Len(s) - 1)) ELSE s

trim(s) == trimEnd(trimStart(s))

replaceGlyph(c) ==
  IF c = "MULSIGN" THEN "*" ELSE IF c = "MINUSSIGN" THEN "-" ELSE c

RECURSIVE removeSpaces(_)
removeSpaces(s) ==
  IF s = <<>> THEN <<>>
  ELSE IF Head(s) = " " THEN removeSpaces(Tail(s))
  ELSE <<Head(s)>> \o removeSpaces(Tail(s))

normalizeText(s) == removeSpaces(MapSeq(trim(s), replaceGlyph))

GuessError(e) == [ok |-> FALSE, err |-> e, tiles |-> <<>>]

tilesFromGuess(userInput) ==
  LET n == normalizeText(userInput)
      s == MapSeq(IF n # <<>> /\ toLowerCase(n[1]) # "x" THEN <<"x">> \o n ELSE n,
                  toLowerCase)
  IN  IF n = <<>> THEN GuessError("empty")
      ELSE IF Len(s) # TILE_COUNT THEN GuessError("length")
      ELSE IF s[1] # "x" THEN GuessError("first")
      ELSE [ok |-> TRUE, err |-> "", tiles |-> s]

(***************************************************************************)
(* TILE FEEDBACK (correct / misplaced / absent)                            *)
(***************************************************************************)
\* remaining.get(ch) ?? 0, the map being a function on the characters set so far
getCount(remaining, ch) == IF ch \in DOMAIN remaining THEN remaining[ch] ELSE 0

setCount(remaining, ch, n) ==
  [c \in (DOMAIN remaining) \cup {ch} |-> IF c = ch THEN n ELSE remaining[c]]

EmptyMap == [c \in {} |-> 0]

\* pass 1: exact matches + remaining counts, from index i (1-based) on
RECURSIVE passOne(_, _, _, _, _)
passOne(secret, guess, i, states, remaining) ==
  IF i > TILE_COUNT THEN [states |-> states, remaining |-> remaining]
  ELSE IF guess[i] = secret[i]
       THEN passOne(secret, guess, i + 1, [states EXCEPT ![i] = "correct"], remaining)
       ELSE passOne(secret, guess, i + 1, states,
                    setCount(remaining, secret[i], getCount(remaining, secret[i]) + 1))

\* pass 2 leaving remaining as it is when it tags a tile misplaced
RECURSIVE passTwoNoDecrement(_, _, _, _)
passTwoNoDecrement(guess, i, states, remaining) ==
  IF i > TILE_COUNT THEN states
  ELSE IF states[i] = "correct" THEN passTwoNoDecrement(guess, i + 1, states, remaining)
  ELSE IF getCount(remaining, guess[i]) > 0
       THEN passTwoNoDecrement(guess, i + 1, [states EXCEPT ![i] = "misplaced"], remaining)
       ELSE passTwoNoDecrement(guess, i + 1, states, remaining)

\* pass 2 going over the tiles pass 1 tagged correct as well
RECURSIVE passTwoNoSkip(_, _, _, _)
passTwoNoSkip(guess, i, states, remaining) ==
  IF i > TILE_COUNT THEN states
  ELSE IF getCount(remaining, guess[i]) > 0
       THEN passTwoNoSkip(guess, i + 1, [states EXCEPT ![i] = "misplaced"],
                          setCount(remaining, guess[i], getCount(remaining, guess[i]) - 1))
       ELSE passTwoNoSkip(guess, i + 1, states, remaining)

\* pass 2: misplaced where possible
RECURSIVE passTwo(_, _, _, _)
passTwo(guess, i, states, remaining) ==
  IF i > TILE_COUNT THEN states
  ELSE IF states[i] = "correct" THEN passTwo(guess, i + 1, states, remaining)
  ELSE IF getCount(remaining, guess[i]) > 0
       THEN passTwo(guess, i + 1, [states EXCEPT ![i] = "misplaced"],
                    setCount(remaining, guess[i], getCount(remaining, guess[i]) - 1))
       ELSE passTwo(guess, i + 1, states, remaining)

compareTiles(secret, guess) ==
  LET p == passOne(secret, guess, 1, [i \in 1..TILE_COUNT |-> "absent"], EmptyMap)
  IN  passTwo(guess, 1, p.states, p.remaining)

(***************************************************************************)
(* UI + GAME STATE                                                         *)
(*                                                                         *)
(* A nullable value is <<>> (null) or <<v>>.                               *)
(***************************************************************************)
Null == <<>>

Some(v) == <<v>>

VARIABLES
  today,         \* the day of January 2024 the clock shows (todayKey reads it)
  secretOf,      \* dailySecret, a pure function, tabulated on the model's day-keys
  currentDay, secretStr, secretTiles, currentX, targetOutput, rowIndex, roundOver,
  tileGrid,      \* the MAX_GUESSES rows of TILE_COUNT tiles of el.tileGrid
  xPill, outputLine, feedback,   \* what el.xPill, el.outputLine, el.feedback show
  pc,            \* the statement the running event handler is at, or "idle"
  call,          \* history: the handler running, the round state and whether the
                 \* day-key was stale when it was called (NoCall when idle)
  gen,           \* a run of generateFormulaString fed by arbitrary RNG values
  runs, dateStr, \* two calls of dailySecret(dateStr), each with its own closure
  tiles, parsed, \* an argument of parseFormulaFromTiles and what it returned
  cmpSecret, cmpGuess, cmpStates, \* arguments and result of compareTiles
  evalX, evalOps, evalNums, evalOut \* arguments and result of evalLeftToRight

sessionVars ==
  <<currentDay, secretStr, secretTiles, currentX, targetOutput, rowIndex, roundOver,
    tileGrid, xPill, outputLine, feedback>>

gameVars == <<today, secretOf, sessionVars, pc, call>>

genVars == <<gen>>

dailyVars == <<runs, dateStr>>

parseVars == <<tiles, parsed>>

scoreVars == <<cmpSecret, cmpGuess, cmpStates>>

evalVars == <<evalX, evalOps, evalNums, evalOut>>

vars == <<gameVars, genVars, dailyVars, parseVars, scoreVars, evalVars>>

EmptyTile == [textContent |-> "", className |-> "tile"]

\* buildEmptyGrid / clearGrid: every tile blank
EmptyGrid == [r \in 1..MAX_GUESSES |-> [c \in 1..TILE_COUNT |-> EmptyTile]]

clearGrid == EmptyGrid

\* "tile " + states[i]
tileClass(state) ==
  CASE state = "correct"   -> "tile correct"
    [] state = "misplaced" -> "tile misplaced"
    [] state = "absent"    -> "tile absent"

\* paintRow taking r for a 1-based row number
paintRowOneBased(grid, r, guessTiles, states) ==
  [grid EXCEPT ![r] =
     [i \in 1..TILE_COUNT |->
        [textContent |-> toUpperCase(guessTiles[i]), className |-> tileClass(states[i])]]]

\* paintRow(r, guessTiles, states), r 0-based
paintRow(grid, r, guessTiles, states) ==
  [grid EXCEPT ![r + 1] =
     [i \in 1..TILE_COUNT |->
        [textContent |-> toUpperCase(guessTiles[i]), className |-> tileClass(states[i])]]]

\* The line el.feedback shows: its kind, the number and the formula it quotes.
Msg(m, n) == [msg |-> m, n |-> n, formula |-> <<>>]

MsgFormula(m, f) == [msg |-> m, n |-> 0, formula |-> f]

NoCall == [op |-> "none", from |-> "none", newDay |-> FALSE]

\* The state of the round, in the words of the state machine: Won leaves the
\* attempt index where the winning guess was made, below MAX_GUESSES.
RoundState ==
  IF targetOutput = Null THEN "NoOutput"
  ELSE IF ~roundOver THEN "InProgress"
  ELSE IF rowIndex < MAX_GUESSES THEN "Won"
  ELSE "Exhausted"

Called(op) == [op |-> op, from |-> RoundState, newDay |-> todayKey(today) # currentDay]

\* The state the script is in once loaded on day d.
GameInit ==
  /\ today \in Days
  /\ secretOf = [key \in DayKeys |-> dailySecret(key)]
  /\ currentDay = todayKey(today)
  /\ secretStr = secretOf[todayKey(today)]
  /\ secretTiles = secretStr
  /\ currentX = Null
  /\ targetOutput = Null
  /\ rowIndex = 0
  /\ roundOver = FALSE
  /\ tileGrid = EmptyGrid
  /\ xPill = Null
  /\ outputLine = Null
  /\ feedback = Msg("none", 0)
  /\ pc = "idle"
  /\ call = NoCall

GameParked ==
  /\ today = 0
  /\ secretOf = <<>>
  /\ currentDay = <<>> /\ secretStr = <<>> /\ secretTiles = <<>>
  /\ currentX = Null /\ targetOutput = Null /\ rowIndex = 0 /\ roundOver = FALSE
  /\ tileGrid = <<>> /\ xPill = Null /\ outputLine = Null
  /\ feedback = Msg("none", 0) /\ pc = "idle" /\ call = NoCall

GenParked == gen = GenStart

DailyParked == runs = <<>> /\ dateStr = <<>>

ParseParked == tiles = <<>> /\ parsed = Null

ScoreParked == cmpSecret = <<>> /\ cmpGuess = <<>> /\ cmpStates = <<>>

EvalParked == evalX = 0 /\ evalOps = <<>> /\ evalNums = <<>> /\ evalOut = Null

\* The clock reaches the next day (midnight in America/New_York).
Midnight ==
  /\ today + 1 \in Days
  /\ today' = today + 1
  /\ UNCHANGED <<secretOf, sessionVars, pc, call>>

\* refreshDailyIfNeeded loading the new secret but keeping the round
refreshDailyKeepsRound ==
  LET newDay == todayKey(today)
  IN  IF newDay # currentDay
      THEN /\ currentDay' = newDay
           /\ secretStr' = secretOf[newDay]
           /\ secretTiles' = secretOf[newDay]
           /\ feedback' = Msg("newDay", 0)
           /\ UNCHANGED <<currentX, targetOutput, rowIndex, roundOver, xPill,
                          outputLine, tileGrid>>
      ELSE UNCHANGED sessionVars

\* refreshDailyIfNeeded(), as the whole of one step
refreshDailyIfNeeded ==
  LET newDay == todayKey(today)
  IN  IF newDay # currentDay
      THEN /\ currentDay' = newDay
           /\ secretStr' = secretOf[newDay]
           /\ secretTiles' = secretOf[newDay]
           /\ currentX' = Null
           /\ targetOutput' = Null
           /\ rowIndex' = 0
           /\ roundOver' = FALSE
           /\ xPill' = Null
           /\ outputLine' = Null
           /\ feedback' = Msg("newDay", 0)
           /\ tileGrid' = clearGrid
      ELSE UNCHANGED sessionVars

\* resetRoundKeepOutput without its clearGrid()
resetRoundKeepGrid ==
  /\ rowIndex' = 0
  /\ roundOver' = FALSE
  /\ UNCHANGED tileGrid

\* resetRoundKeepOutput()
resetRoundKeepOutput ==
  /\ rowIndex' = 0
  /\ roundOver' = FALSE
  /\ tileGrid' = clearGrid

(***************************************************************************)
(* ACTIONS                                                                 *)
(***************************************************************************)
\* /^-?\d+$/.test(raw)
isWholeNumber(raw) ==
  LET d == IF raw # <<>> /\ raw[1] = "-" THEN Tail(raw) ELSE raw
  IN  d # <<>> /\ \A i \in 1..Len(d) : isDigit(d[i])

\* parseInt(raw, 10) of a text that passed the test
parseSigned(raw) ==
  IF raw[1] = "-" THEN 0 - parseInt(Tail(raw)) ELSE parseInt(raw)

\* The texts the player may have typed into el.xInput.
XInputs ==
  { <<"5">>, <<" ", "-", "3", " ">>, <<"0", "5">>, <<>>, <<"a">>, <<"-">>, <<"1", "-">>,
    <<"2", " ", "3">> }

\* generateOutput(), first statement: refreshDailyIfNeeded()
generateOutputRefresh ==
  /\ pc = "idle"
  /\ refreshDailyIfNeeded
  /\ pc' = "gen_read"
  /\ call' = Called("generateOutput")
  /\ UNCHANGED <<today, secretOf>>

\* const raw = el.xInput.value.trim(); the test; currentX = parseInt(raw, 10)
generateOutputRead(value) ==
  /\ pc = "gen_read"
  /\ LET raw == trim(value)
     IN  IF ~isWholeNumber(raw)
         THEN /\ pc' = "idle"
              /\ call' = NoCall
              /\ UNCHANGED <<today, secretOf, sessionVars>>
         ELSE /\ currentX' = Some(parseSigned(raw))
              /\ pc' = "gen_reset"
              /\ UNCHANGED <<today, secretOf, call, currentDay, secretStr, secretTiles, targetOutput,
                             rowIndex, roundOver, tileGrid, xPill, outputLine, feedback>>

\* resetRoundKeepOutput()
generateOutputReset ==
  /\ pc = "gen_reset"
  /\ resetRoundKeepOutput
  /\ pc' = "gen_target"
  /\ UNCHANGED <<today, secretOf, call, currentDay, secretStr, secretTiles, currentX, targetOutput,
                 xPill, outputLine, feedback>>

\* targetOutput = evalLeftToRight(currentX, ops, nums) and the lines shown
generateOutputTarget ==
  /\ pc = "gen_target"
  /\ LET f == parseFormulaFromTiles(secretTiles)
         t == evalLeftToRight(currentX[1], f.ops, f.nums)
     IN  /\ targetOutput' = Some(t)
         /\ outputLine' = Some(t)
  /\ xPill' = currentX
  /\ feedback' = Msg("makeGuess", MAX_GUESSES)
  /\ pc' = "idle"
  /\ call' = NoCall
  /\ UNCHANGED <<today, secretOf, currentDay, secretStr, secretTiles, currentX, rowIndex,
                 roundOver, tileGrid>>

\* submitGuess(), first statement: refreshDailyIfNeeded()
submitGuessRefresh ==
  /\ pc = "idle"
  /\ refreshDailyIfNeeded
  /\ pc' = "guess"
  /\ call' = Called("submitGuess")
  /\ UNCHANGED <<today, secretOf>>

\* A round outcome: what submitGuess leaves in rowIndex, roundOver, tileGrid
\* and el.feedback.
\* An early return that has already counted the attempt
rejectGuessCounted(m) ==
  [rowIndex |-> rowIndex + 1, roundOver |-> roundOver, tileGrid |-> tileGrid,
   feedback |-> m]

\* An early return of submitGuess: message m and nothing else
rejectGuess(m) ==
  [rowIndex |-> rowIndex, roundOver |-> roundOver, tileGrid |-> tileGrid, feedback |-> m]

\* guessTiles.join("") === secretStr
isSolved(guessTiles) == guessTiles = secretStr

\* acceptGuess leaving roundOver as it is when the last attempt is used up
acceptGuessNoExhaust(guessTiles) ==
  LET painted == paintRow(tileGrid, rowIndex, guessTiles,
                          compareTiles(secretTiles, guessTiles))
      remaining == MAX_GUESSES - (rowIndex + 1)
  IN  IF isSolved(guessTiles)
      THEN [rowIndex |-> rowIndex, roundOver |-> TRUE, tileGrid |-> painted,
            feedback |-> Msg("correct", rowIndex + 1)]
      ELSE [rowIndex |-> rowIndex + 1, roundOver |-> roundOver, tileGrid |-> painted,
            feedback |-> Msg("incorrect", remaining)]

\* submitGuess from compareTiles on, the guess having passed both validations
acceptGuess(guessTiles) ==
  LET painted == paintRow(tileGrid, rowIndex, guessTiles,
                          compareTiles(secretTiles, guessTiles))
      remaining == MAX_GUESSES - (rowIndex + 1)
  IN  IF isSolved(guessTiles)
      THEN [rowIndex |-> rowIndex, roundOver |-> TRUE, tileGrid |-> painted,
            feedback |-> Msg("correct", rowIndex + 1)]
      ELSE IF remaining = 0
      THEN [rowIndex |-> rowIndex + 1, roundOver |-> TRUE, tileGrid |-> painted,
            feedback |-> MsgFormula("noAttempts", secretStr)]
      ELSE [rowIndex |-> rowIndex + 1, roundOver |-> roundOver, tileGrid |-> painted,
            feedback |-> Msg("incorrect", remaining)]

\* submitGuess after refreshDailyIfNeeded, el.guessInput holding value
guessOutcome(value) ==
  IF targetOutput = Null THEN rejectGuess(Msg("generateFirst", 0))
  ELSE IF roundOver THEN rejectGuess(Msg("roundOver", 0))
  ELSE IF rowIndex >= MAX_GUESSES
       THEN [rejectGuess(MsgFormula("noAttempts", secretStr)) EXCEPT !.roundOver = TRUE]
  ELSE IF ~tilesFromGuess(value).ok THEN rejectGuess(Msg(tilesFromGuess(value).err, 0))
  ELSE IF ~parseFormulaFromTiles(tilesFromGuess(value).tiles).ok
       THEN rejectGuess(Msg(parseFormulaFromTiles(tilesFromGuess(value).tiles).err, 0))
  ELSE acceptGuess(tilesFromGuess(value).tiles)

\* the rest of submitGuess()
submitGuessBody(value) ==
  /\ pc = "guess"
  /\ LET o == guessOutcome(value)
     IN  /\ rowIndex' = o.rowIndex
         /\ roundOver' = o.roundOver
         /\ tileGrid' = o.tileGrid
         /\ feedback' = o.feedback
  /\ pc' = "idle"
  /\ call' = NoCall
  /\ UNCHANGED <<today, secretOf, currentDay, secretStr, secretTiles, currentX,
                 targetOutput, xPill, outputLine>>

\* The texts the player may have typed into el.guessInput: three that pass the
\* validation (+86+889, the secret of 25 January; X(U+00D7)930+89, that of the
\* 26th; " x (U+2212)86 *889", no day's secret) and ten that do not.
GuessInputs ==
  { <<"+", "8", "6", "+", "8", "8", "9">>,
    <<"X", "MULSIGN", "9", "3", "0", "+", "8", "9">>,
    <<" ", "x", " ", "MINUSSIGN", "8", "6", " ", "*", "8", "8", "9">>,
    <<>>,
    <<" ", "\t">>,
    <<"+", "8", "+", "9">>,
    <<"+", "1", "+", "2", "+", "3", "+", "4">>,
    <<"/", "1", "6", "1", "-", "7", "4">>,
    <<"+", "1", "2", "3", "4", "+", "5">>,
    <<"+", "1", "6", "1", "-", "7", "+">>,
    <<"+", "-", "1", "6", "1", "+", "7">>,
    <<"x", "x", "+", "1", "+", "2", "+", "3">>,
    <<"+", "1", "\t", "2", "+", "3", "4">> }

Init == GameInit /\ GenParked /\ DailyParked /\ ParseParked /\ ScoreParked /\ EvalParked

otherVars == <<genVars, dailyVars, parseVars, scoreVars, evalVars>>

Next ==
  \/ Midnight /\ UNCHANGED otherVars
  \/ generateOutputRefresh /\ UNCHANGED otherVars
  \/ \E value \in XInputs : generateOutputRead(value) /\ UNCHANGED otherVars
  \/ generateOutputReset /\ UNCHANGED otherVars
  \/ generateOutputTarget /\ UNCHANGED otherVars
  \/ submitGuessRefresh /\ UNCHANGED otherVars
  \/ \E value \in GuessInputs : submitGuessBody(value) /\ UNCHANGED otherVars

Spec == Init /\ [][Next]_vars

(***************************************************************************)
(* The round state machine: claims                                         *)
(***************************************************************************)
\* The guess the text stands for, when it passes both validations
validGuess(value) ==
  /\ tilesFromGuess(value).ok
  /\ parseFormulaFromTiles(tilesFromGuess(value).tiles).ok

InProgress == targetOutput # Null /\ ~roundOver

\* Row r (0-based) of the grid shows these tiles with this feedback.
rowShows(grid, r, guessTiles, states) ==
  \A i \in 1..TILE_COUNT :
    /\ grid[r + 1][i].textContent = toUpperCase(guessTiles[i])
    /\ grid[r + 1][i].className = tileClass(states[i])

rowBlank(grid, r) == \A i \in 1..TILE_COUNT : grid[r + 1][i] = EmptyTile

\* What C1 says of one run of the body of submitGuess on a valid guess
C1_Valid(value) ==
  LET guessTiles == tilesFromGuess(value).tiles
  IN  /\ rowShows(tileGrid', rowIndex, guessTiles, compareTiles(secretTiles, guessTiles))
      /\ \A r \in 0..(MAX_GUESSES - 1) : r # rowIndex => tileGrid'[r + 1] = tileGrid[r + 1]
      /\ IF guessTiles = secretStr
         THEN /\ roundOver'
              /\ rowIndex' = rowIndex
              /\ feedback' = Msg("correct", rowIndex + 1)
         ELSE /\ rowIndex' = rowIndex + 1
              /\ roundOver' <=> (rowIndex' = MAX_GUESSES)
              /\ roundOver' => feedback'.msg = "noAttempts"

C1_Step ==
  /\ \A value \in GuessInputs :
       (submitGuessBody(value) /\ InProgress /\ validGuess(value)) => C1_Valid(value)
  /\ (pc = "gen_target" /\ pc' = "idle") => (rowIndex' = 0 /\ InProgress')

\* C1: a valid guess in state InProgress is recorded with its feedback at the
\* current attempt index; a guess equal to the secret ends the round as Won
\* with attempt count index + 1, any other raises the index by exactly 1 and
\* ends the round as Exhausted exactly when the index reaches 5; generateOutput
\* leaves the index at 0, so a first right guess reports 1 attempt and five
\* valid wrong guesses in a row end in Exhausted.
C1_Theorem == [][C1_Step]_vars

\* Five valid wrong guesses stand in the grid and the round is Exhausted.
C1_Witness ==
  /\ pc = "idle" /\ roundOver /\ rowIndex = MAX_GUESSES
  /\ feedback = MsgFormula("noAttempts", secretStr)
  /\ \A r \in 0..(MAX_GUESSES - 1) : ~rowBlank(tileGrid, r)

C2_Step ==
  /\ (pc = "gen_reset" /\ pc' = "gen_target") =>
       /\ rowIndex' = 0 /\ ~roundOver' /\ tileGrid' = EmptyGrid
       /\ targetOutput' = targetOutput
  /\ (pc = "gen_target" /\ pc' = "idle") =>
       /\ rowIndex' = 0 /\ ~roundOver' /\ tileGrid' = EmptyGrid
       /\ currentX' = currentX /\ currentX # Null
       /\ LET f == parseFormulaFromTiles(secretTiles')
          IN  targetOutput' = Some(evalLeftToRight(currentX[1], f.ops, f.nums))
       /\ outputLine' = targetOutput'
  /\ (pc = "gen_read" /\ pc' = "gen_reset") => currentX' # Null
  /\ (targetOutput' # targetOutput) =>
       /\ tileGrid' = EmptyGrid /\ rowIndex' = 0 /\ ~roundOver'
       /\ targetOutput' # Null => (tileGrid = EmptyGrid /\ rowIndex = 0 /\ ~roundOver)

\* C2: generateOutput with an integer x, from any round state, resets the
\* attempt index to 0, blanks the grid, clears the terminal flag, sets the
\* target to evaluate(x, secret) and leaves the round InProgress; the round is
\* reset before the target is set, so a step that changes the target leaves
\* no guess in the grid, and one that sets a new target finds none there.
C2_Theorem == [][C2_Step]_vars

\* generateOutput, called in state Exhausted with an integer x, has reset
\* the round and is about to replace the old target.
C2_Witness ==
  /\ pc = "gen_target" /\ call.op = "generateOutput" /\ call.from = "Exhausted"
  /\ ~call.newDay /\ targetOutput # Null /\ tileGrid = EmptyGrid /\ rowIndex = 0

\* The guess in el.guessInput is one submitGuess rejects.
rejectedGuess(value) == targetOutput = Null \/ roundOver \/ ~validGuess(value)

C3_Step ==
  /\ (pc = "idle" /\ pc' = "guess" /\ todayKey(today) = currentDay) =>
       UNCHANGED sessionVars
  /\ \A value \in GuessInputs :
       (submitGuessBody(value) /\ rejectedGuess(value)) =>
          UNCHANGED <<currentDay, secretStr, secretTiles, currentX, targetOutput,
                      rowIndex, roundOver, tileGrid, xPill, outputLine>>

\* C3: with the day-key unchanged, a submitGuess that is rejected (no target,
\* round over, text failing normalization or parseTiles) leaves secret, x,
\* target, attempt index, terminal flag and the recorded guesses as they were.
C3_Theorem == [][C3_Step]_vars

\* A guess with a 4-digit run was rejected in mid-round: two rows recorded,
\* the third still blank, the round still in progress.
C3_Witness ==
  /\ pc = "idle" /\ feedback = Msg("long", 0)
  /\ rowIndex = 2 /\ ~roundOver /\ targetOutput # Null
  /\ ~rowBlank(tileGrid, 1) /\ rowBlank(tileGrid, 2)

C4_Step ==
  /\ (pc = "idle" /\ pc' # "idle" /\ todayKey(today) # currentDay) =>
       /\ currentDay' = todayKey(today)
       /\ secretStr' = secretOf[todayKey(today)]
       /\ secretTiles' = secretStr'
       /\ currentX' = Null /\ targetOutput' = Null
       /\ rowIndex' = 0 /\ ~roundOver' /\ tileGrid' = EmptyGrid
  /\ (pc = "guess" /\ pc' = "idle" /\ call.newDay) =>
       /\ targetOutput = Null
       /\ feedback' = Msg("generateFirst", 0)
       /\ UNCHANGED <<currentDay, secretStr, secretTiles, currentX, targetOutput,
                      rowIndex, roundOver, tileGrid>>

\* C4: generateOutput or submitGuess called while the day-key differs from
\* the stored one first replaces the secret by the one generated for the new
\* key, unsets x and target, zeroes the attempt index and clears the terminal
\* flag and the grid, whatever the round state was; a submitGuess of that
\* call is then rejected for want of an output and records nothing.
C4_Theorem == [][C4_Step]_vars

\* submitGuess was called in state Won on a new day and has been rejected.
C4_Witness ==
  /\ pc = "guess" /\ call.op = "submitGuess" /\ call.from = "Won" /\ call.newDay
  /\ targetOutput = Null /\ tileGrid = EmptyGrid /\ currentDay = todayKey(today)

(***************************************************************************)
(* parseFormulaFromTiles as a function: every argument of ParseInputs      *)
(***************************************************************************)
\* Sequences of length n over the set S
SeqsOf(S, n) == [1..n -> S]

\* Accepted sequences the other arguments are derived from
ParseBases ==
  { <<"x", "+", "8", "6", "+", "8", "8", "9">>,
    <<"x", "*", "9", "3", "0", "-", "8", "9">>,
    <<"x", "-", "1", "*", "2", "+", "3", "4">>,
    <<"x", "+", "0", "7", "*", "1", "-", "0">> }

\* Characters put in place of one tile of a base
ParseOddChars == {"-", "*", "/", ":", "X", "a", " ", "5"}

\* Every 8-tile sequence over x + 0 9; the bases with one tile replaced; the
\* bases cut short by up to TILE_COUNT tiles or one tile too long.
ParseInputs ==
  SeqsOf({"x", "+", "0", "9"}, TILE_COUNT)
    \cup { [b EXCEPT ![i] = c] : b \in ParseBases, i \in 1..TILE_COUNT, c \in ParseOddChars }
    \cup { SubSeq(b, 1, n) : b \in ParseBases, n \in 0..TILE_COUNT }
    \cup { Append(b, c) : b \in ParseBases, c \in {"1", "+", "x"} }

ParseInit ==
  /\ tiles \in ParseInputs /\ parsed = Null
  /\ GameParked /\ GenParked /\ DailyParked /\ ScoreParked /\ EvalParked

parseCall ==
  /\ parsed = Null
  /\ parsed' = Some(parseFormulaFromTiles(tiles))
  /\ UNCHANGED tiles

SpecParse ==
  /\ ParseInit
  /\ [][parseCall /\ UNCHANGED <<gameVars, genVars, dailyVars, scoreVars, evalVars>>]_vars

\* The grammar of section 4.2, stated on the tiles alone.
OperatorChars == {"+", "-", "*"}

DigitChars == {"0", "1", "2", "3", "4", "5", "6", "7", "8", "9"}

\* The digit counts of 2 or 3 groups that fill tiles 1..7
GroupShapes ==
  { sh \in SeqsOf(1..3, 2) \cup SeqsOf(1..3, 3) :
      (IF Len(sh) = 2 THEN sh[1] + sh[2] ELSE sh[1] + sh[2] + sh[3]) + Len(sh)
        = TILE_COUNT - 1 }

\* The 1-based place of the operator of group k under shape sh
groupStart(sh, k) ==
  2 + (IF k > 1 THEN sh[1] + 1 ELSE 0) + (IF k > 2 THEN sh[2] + 1 ELSE 0)

fitsShape(t, sh) ==
  \A k \in 1..Len(sh) :
    /\ t[groupStart(sh, k)] \in OperatorChars
    /\ \A j \in 1..sh[k] : t[groupStart(sh, k) + j] \in DigitChars

inGrammar(t) ==
  /\ Len(t) = TILE_COUNT
  /\ t[1] = "x"
  /\ \E sh \in GroupShapes : fitsShape(t, sh)

\* The value of the digit ch, read off the list of digits
digitIndex(ch) == (CHOOSE d \in 1..10 : Digits[d] = ch) - 1

\* The decimal value of the digits of group k
groupValue(t, sh, k) ==
  LET a == groupStart(sh, k)
  IN  IF sh[k] = 1 THEN digitIndex(t[a + 1])
      ELSE IF sh[k] = 2 THEN 10 * digitIndex(t[a + 1]) + digitIndex(t[a + 2])
      ELSE 100 * digitIndex(t[a + 1]) + 10 * digitIndex(t[a + 2]) + digitIndex(t[a + 3])

\* C5: parseFormulaFromTiles accepts a tile sequence iff it has exactly 8
\* tiles, the first is x and tiles 1..7 are 2 or 3 groups of one operator of
\* + - * and 1 to 3 digits; it rejects every other sequence with an error;
\* what it returns on acceptance are the operators and the operands of the
\* groups in tile order, as many operands as operators, 2 or 3 of them.
C5_Theorem ==
  parsed # Null =>
    LET r == parsed[1]
    IN  /\ r.ok <=> inGrammar(tiles)
        /\ ~r.ok => r.err \in {"length", "start", "operator", "digit", "long", "count"}
        /\ r.ok =>
             /\ Len(r.ops) = Len(r.nums) /\ Len(r.ops) \in {2, 3}
             /\ \E sh \in GroupShapes :
                  /\ Len(sh) = Len(r.ops)
                  /\ fitsShape(tiles, sh)
                  /\ \A k \in 1..Len(sh) :
                       /\ r.ops[k] = tiles[groupStart(sh, k)]
                       /\ r.nums[k] = groupValue(tiles, sh, k)

\* A sequence of three groups was accepted, one was rejected for its length
\* being 9 ... : here, an accepted one whose middle group has 2 digits.
C5_Witness ==
  /\ parsed # Null /\ parsed[1].ok
  /\ Len(parsed[1].ops) = 3 /\ parsed[1].nums[2] > 9

\* 'x' followed by each operator and the decimal digits of its operand
RECURSIVE encodeFrom(_, _, _)
encodeFrom(ops, nums, k) ==
  IF k > Len(ops) THEN <<>>
  ELSE <<ops[k]>> \o numberToDigits(nums[k]) \o encodeFrom(ops, nums, k + 1)

encodeFormula(ops, nums) == <<"x">> \o encodeFrom(ops, nums, 1)

roundTrips(t, r) ==
  /\ \A k \in 1..Len(r.nums) : r.nums[k] \in MinOperand..MaxOperand
  /\ encodeFormula(r.ops, r.nums) = t

\* No operand is written with a leading zero.
canonicalTiles(t) ==
  \A i \in 2..Len(t) : t[i - 1] \in OperatorChars => t[i] # "0"

\* C6 as claimed: every accepted sequence has its operands in 1..999 and is
\* what re-encoding its parsed formula gives.
C6_Original == (parsed # Null /\ parsed[1].ok) => roundTrips(tiles, parsed[1])

\* C6, amended: every accepted sequence in which no operand is written with
\* a leading zero has its operands in 1..999 and is what re-encoding its
\* parsed formula gives (so no two such sequences parse to the same formula).
C6_Theorem ==
  (parsed # Null /\ parsed[1].ok /\ canonicalTiles(tiles)) => roundTrips(tiles, parsed[1])

\* An accepted sequence with operands of 3 and 2 digits, none with a leading
\* zero, one of them holding a zero further on.
C6_Witness ==
  /\ parsed # Null /\ parsed[1].ok /\ canonicalTiles(tiles)
  /\ parsed[1].nums = <<900, 99>>

(***************************************************************************)
(* generateFormulaString under every sequence of RNG values                *)
(***************************************************************************)
RECURSIVE digitsWithin(_, _)
digitsWithin(n, D) ==
  /\ (n % 10) \in D
  /\ (n < 10 \/ digitsWithin(n \div 10, D))

\* The operands randInt(rng, 1, 999) is let return
OperandDraws ==
  { n \in MinOperand..MaxOperand : digitsWithin(n, (0..MaxDrawDigit) \cup {9}) }

GenInit ==
  /\ gen = GenStart
  /\ GameParked /\ DailyParked /\ ParseParked /\ ScoreParked /\ EvalParked

\* A step that calls the RNG, randInt returning r
genDraw ==
  /\ needsDraw(gen)
  /\ \E r \in (IF gen.pc = "num" THEN OperandDraws
               ELSE drawRange(gen.pc)[1]..drawRange(gen.pc)[2]) :
       gen' = genStep(gen, r)

\* The end of a pass of the loop: continue, return or catch
genCheck ==
  /\ gen.pc \in {"check", "catch"}
  /\ gen' = genStep(gen, 0)

SpecGen ==
  /\ GenInit
  /\ [][(genDraw \/ genCheck)
          /\ UNCHANGED <<gameVars, dailyVars, parseVars, scoreVars, evalVars>>]_vars

\* C7: whatever the RNG returns, the string generateFormulaString returns has
\* exactly 8 tiles, starts with x, has 2 or 3 operators of + - * each followed
\* by an operand of 1..999 in canonical decimal; parseFormulaFromTiles accepts
\* it and re-encoding the parsed formula gives the same string; the catch
\* branch is never taken.
C7_Theorem ==
  /\ gen.pc # "catch"
  /\ gen.pc = "done" =>
       /\ inGrammar(gen.out) /\ canonicalTiles(gen.out)
       /\ LET r == parseFormulaFromTiles(gen.out)
          IN  r.ok /\ roundTrips(gen.out, r)

\* A string of three operators has been returned.
C7_Witness ==
  /\ gen.pc = "done" /\ gen.opCount = 3
  /\ Len(parseFormulaFromTiles(gen.out).ops) = 3

(***************************************************************************)
(* Two calls of dailySecret with the same date string, interleaved         *)
(***************************************************************************)
Calls == {1, 2}

DailyInit ==
  /\ dateStr \in DayKeys /\ runs = <<>>
  /\ GameParked /\ GenParked /\ ParseParked /\ ScoreParked /\ EvalParked

\* dailySecret drawing from the RNG of the call before it, if there is one
dailyCallSharedRng ==
  /\ Len(runs) < Cardinality(Calls)
  /\ runs' = Append(runs, [g |-> GenStart,
                           seed |-> IF runs = <<>> THEN closureSeed(dateStr)
                                    ELSE runs[1].seed,
                           steps |-> 0])
  /\ UNCHANGED dateStr

\* dailySecret(dateStr) is called: a new closure, a new run of the loop
dailyCall ==
  /\ Len(runs) < Cardinality(Calls)
  /\ runs' = Append(runs, [g |-> GenStart, seed |-> closureSeed(dateStr), steps |-> 0])
  /\ UNCHANGED dateStr

\* The c-th call takes its next step.
dailyStep(c) ==
  /\ c <= Len(runs)
  /\ runs[c].g.pc # "done"
  /\ LET next == seededStep(runs[c])
     IN  runs' = [runs EXCEPT ![c] = [g |-> next.g, seed |-> next.seed,
                                      steps |-> runs[c].steps + 1]]
  /\ UNCHANGED dateStr

SpecDaily ==
  /\ DailyInit
  /\ [][(dailyCall \/ \E c \in Calls : dailyStep(c))
          /\ UNCHANGED <<gameVars, genVars, parseVars, scoreVars, evalVars>>]_vars

ScoreChars == {"+", "1", "2"}

\* x followed by every 7 tiles over + 1 2
ScoreTiles == { <<"x">> \o t : t \in SeqsOf(ScoreChars, TILE_COUNT - 1) }

\* The formulas with three operators among them, and x+11-221
ScoreSecrets ==
  { t \in ScoreTiles : parseFormulaFromTiles(t).ok /\ t[4] = "+" }
    \cup { <<"x", "+", "1", "1", "-", "2", "2">> \o <<"1">> }

ScoreGuesses ==
  ScoreTiles \cup { <<"x", "+", "2", "2", "-", "1", "1", "1">>,
                    <<"+", "1", "+", "2", "+", "1", "1", "x">> }

ScoreInit ==
  /\ cmpSecret \in ScoreSecrets
  /\ cmpGuess \in ScoreGuesses
  /\ cmpStates = <<>>
  /\ GameParked /\ GenParked /\ DailyParked /\ ParseParked /\ EvalParked

compareCall ==
  /\ cmpStates = <<>>
  /\ cmpStates' = compareTiles(cmpSecret, cmpGuess)
  /\ UNCHANGED <<cmpSecret, cmpGuess>>

SpecScore ==
  /\ ScoreInit
  /\ [][compareCall /\ UNCHANGED <<gameVars, genVars, dailyVars, parseVars, evalVars>>]_vars

countOf(t, c) == Cardinality({i \in 1..Len(t) : t[i] = c})

taggedOf(c) ==
  Cardinality({i \in 1..TILE_COUNT :
                 cmpGuess[i] = c /\ cmpStates[i] \in {"correct", "misplaced"}})

\* C9: for every character, the guess positions holding it that compareTiles
\* tags correct or misplaced are no more than its occurrences in the secret.
C9_Theorem ==
  cmpStates # <<>> =>
    \A i \in 1..TILE_COUNT : taggedOf(cmpGuess[i]) <= countOf(cmpSecret, cmpGuess[i])

\* The guess holds a character of the secret more often than the secret
\* does, and a surplus occurrence is tagged absent.
C9_Witness ==
  /\ cmpStates # <<>>
  /\ \E i \in 1..TILE_COUNT :
       /\ countOf(cmpSecret, cmpGuess[i]) > 0
       /\ countOf(cmpGuess, cmpGuess[i]) > countOf(cmpSecret, cmpGuess[i])
       /\ cmpStates[i] = "absent"
       /\ taggedOf(cmpGuess[i]) = countOf(cmpSecret, cmpGuess[i])

\* C10: compareTiles tags position i correct exactly when the guess and
\* the secret hold the same tile there; so the feedback is all correct
\* exactly when the guess is the secret, and tile 0 of a guess that passed the
\* validation is tagged correct.
C10_Theorem ==
  cmpStates # <<>> =>
    /\ \A i \in 1..TILE_COUNT : (cmpStates[i] = "correct") <=> (cmpGuess[i] = cmpSecret[i])
    /\ (\A i \in 1..TILE_COUNT : cmpStates[i] = "correct") <=> (cmpGuess = cmpSecret)
    /\ (parseFormulaFromTiles(cmpGuess).ok /\ parseFormulaFromTiles(cmpSecret).ok)
         => cmpStates[1] = "correct"

\* The guess is the secret and every tile is tagged correct.
C10_Witness ==
  /\ cmpStates # <<>> /\ cmpGuess = cmpSecret
  /\ \A i \in 1..TILE_COUNT : cmpStates[i] = "correct"

(***************************************************************************)
(* evalLeftToRight as a function                                           *)
(***************************************************************************)
\* x is an integer of -MaxEvalX..MaxEvalX
MaxEvalX == 5

EvalXs == (0 - MaxEvalX)..MaxEvalX

\* Operands of one and of two digits
EvalOperands == {MinOperand, 2, 3, 10}

EvalInit ==
  /\ evalX \in EvalXs
  /\ \E n \in {2, 3} :
       /\ evalOps \in SeqsOf({"+", "-", "*"}, n)
       /\ evalNums \in SeqsOf(EvalOperands, n)
  /\ evalOut = Null
  /\ GameParked /\ GenParked /\ DailyParked /\ ParseParked /\ ScoreParked

evalCall ==
  /\ evalOut = Null
  /\ evalOut' = Some(evalLeftToRight(evalX, evalOps, evalNums))
  /\ UNCHANGED <<evalX, evalOps, evalNums>>

SpecEval ==
  /\ EvalInit
  /\ [][evalCall /\ UNCHANGED <<gameVars, genVars, dailyVars, parseVars, scoreVars>>]_vars

\* What an operator of a formula means
meaning(a, o, b) == IF o = "+" THEN a + b ELSE IF o = "-" THEN a - b ELSE a * b

\* C11: evalLeftToRight(x, ops, nums) is ((x o1 n1) o2 n2) for two pairs and
\* (((x o1 n1) o2 n2) o3 n3) for three, whatever the operators: no operator
\* takes precedence, so x+2*3 at x = 5 is 21, and x*3+2, the same pairs in the
\* other order, is 17.
C11_Theorem ==
  evalOut # Null =>
    LET a == meaning(evalX, evalOps[1], evalNums[1])
        b == meaning(a, evalOps[2], evalNums[2])
    IN  /\ Len(evalOps) = 2 => evalOut[1] = b
        /\ Len(evalOps) = 3 => evalOut[1] = meaning(b, evalOps[3], evalNums[3])
        /\ (evalX = 5 /\ evalOps = <<"+", "*">> /\ evalNums = <<2, 3>>) => evalOut[1] = 21
        /\ (evalX = 5 /\ evalOps = <<"*", "+">> /\ evalNums = <<3, 2>>) => evalOut[1] = 17

\* x+2*3 has been evaluated at x = 5: 21, where precedence would give 11.
C11_Witness ==
  /\ evalX = 5 /\ evalOps = <<"+", "*">> /\ evalNums = <<2, 3>>
  /\ evalOut = Some(21)

(***************************************************************************)
(* generateFormulaString: the order of the draws and the retries           *)
(***************************************************************************)
\* The digit strings an operand draw can push
OperandDigits ==
  SeqsOf(DigitChars, 1) \cup SeqsOf(DigitChars, 2) \cup SeqsOf(DigitChars, 3)

\* The pass has been abandoned, or has ended with other than TILE_COUNT tiles.
discarded(g) == g.chars = <<>> \/ Len(g.chars) # TILE_COUNT

C12_Step ==
  /\ gen.pc = "opCount" =>
       \* an attempt starts with the draw of the operator count, from no tile
       /\ gen'.pc = "op" /\ gen'.opCount \in {2, 3}
       /\ gen'.chars = <<"x">> /\ gen'.k = 0
  /\ gen.pc = "op" =>
       \* one operator draw, and then one operand draw
       /\ gen'.pc = "num" /\ gen'.k = gen.k /\ gen'.opCount = gen.opCount
       /\ \E o \in OperatorChars : gen'.chars = Append(gen.chars, o)
  /\ gen.pc = "num" =>
       /\ gen'.opCount = gen.opCount
       /\ \/ \* the digits would not fit: abandoned, with slots left or not
             /\ Len(gen.chars) + 3 > TILE_COUNT
             /\ gen'.chars = <<>> /\ gen'.pc = "check" /\ gen'.k = gen.k
          \/ \* the digits fit: the next slot's operator, or the end of the slots
             /\ \E d \in OperandDigits : gen'.chars = gen.chars \o d
             /\ Len(gen'.chars) <= TILE_COUNT
             /\ gen'.k = gen.k + 1
             /\ gen'.pc = IF gen'.k < gen.opCount THEN "op" ELSE "check"
  /\ gen.pc = "check" =>
       \* no draw: a discarded attempt is followed by a fresh operator count,
       \* and the string returned is the tiles of this attempt
       IF discarded(gen)
       THEN gen'.pc = "opCount" /\ gen'.out = <<>>
       ELSE gen'.pc = "done" /\ gen'.out = gen.chars
  /\ gen.pc \notin {"opCount", "op", "num", "check"} => gen' = gen

\* C12: an attempt of generateFormulaString draws the operator count, then
\* for each slot one operator and then one operand; an operand whose digits
\* would exceed 8 tiles abandons the attempt with no more draws for it, an
\* attempt ending with fewer than 8 tiles is discarded too, the next draw is
\* then a fresh operator count starting from x alone, and the string returned
\* is the tiles pushed in the attempt that returns.
C12_Theorem == [][C12_Step]_vars

\* An attempt of three operators has been abandoned at its second operand,
\* its third slot undrawn; the draw to come is an operator count.
C12_Witness ==
  /\ gen.pc = "opCount" /\ gen.chars = <<>>
  /\ gen.opCount = 3 /\ gen.k = 1
  /\ gen.out = <<>>

(***************************************************************************)
(* The round state machine: what every session state satisfies             *)
(***************************************************************************)
\* The rows of the grid a guess has been painted in
paintedRows == {r \in 0..(MAX_GUESSES - 1) : ~rowBlank(tileGrid, r)}

\* C13: in every state 0 <= rowIndex <= 5, rowIndex = 5 implies roundOver, and
\* roundOver or rowIndex # 0 implies that the target is set; between two
\* handlers the target is set exactly when x is, and is then
\* evalLeftToRight(x, secret); so the rows painted are those below rowIndex
\* (and row rowIndex of a round that was won), at most 5, and submitGuess
\* never comes to its test rowIndex >= MAX_GUESSES with roundOver false and
\* rowIndex at 5.
C13_Theorem ==
  /\ rowIndex \in 0..MAX_GUESSES
  /\ rowIndex = MAX_GUESSES => roundOver
  /\ (roundOver \/ rowIndex # 0) => targetOutput # Null
  /\ pc = "idle" =>
       /\ (targetOutput # Null) <=> (currentX # Null)
       /\ targetOutput # Null =>
            LET f == parseFormulaFromTiles(secretTiles)
            IN  f.ok /\ targetOutput = Some(evalLeftToRight(currentX[1], f.ops, f.nums))
  /\ \A r \in paintedRows : r < rowIndex \/ (r = rowIndex /\ roundOver)
  /\ Cardinality(paintedRows) <= MAX_GUESSES
  /\ (pc = "guess" /\ targetOutput # Null /\ ~roundOver) => rowIndex < MAX_GUESSES

\* The fifth wrong guess has been recorded: rowIndex is 5, the round is over
\* and five rows are painted.
C13_Witness ==
  /\ pc = "idle" /\ rowIndex = MAX_GUESSES /\ roundOver
  /\ targetOutput # Null /\ currentX # Null
  /\ Cardinality(paintedRows) = MAX_GUESSES

=============================================================================
